---- MODULE Spec2Model ----
(***************************************************************************)
(* Model of src/app.py: the ingestion pass load_source_code_to_graph that  *)
(* writes CodeChunk nodes and SAME_LANGUAGE relationships into the graph   *)
(* store, and the question loop of main built on answer_query.             *)
(*                                                                         *)
(* The graph store, the document loader, the text splitter and the QA      *)
(* chain are libraries.  The store is modelled by what the Cypher          *)
(* statements of the source do to a set of nodes and a bag of              *)
(* relationships; what the loader and the chain hand back is an input,     *)
(* drawn from the shapes the source itself distinguishes.                  *)
(***************************************************************************)
EXTENDS Integers, Sequences, FiniteSets, Bags, TLC

\* ------------------------------------------------------------------ bounds

\* Files the directory holds at most at one time.
MaxFiles == 2
\* Ingestion passes of one behaviour of SpecIngest.
MaxPasses == 2
\* Prompts of one run of the script.
MaxQuestions == 2

\* ------------------------------------------------------------------- texts

\* A text is a sequence of runs, a run being n copies of one character:
\* <<Run("x", 3), Run("#", 1)>> is "xxx#".  Adjacent runs hold different
\* characters, so equal texts are equal sequences.
Run(c, k) == [ch |-> c, n |-> k]

RECURSIVE TLen(_)
TLen(t) == IF t = <<>> THEN 0 ELSE Head(t).n + TLen(Tail(t))

\* t \o u with the runs at the seam joined.
Concat(t, u) ==
    IF t = <<>> THEN u
    ELSE IF u = <<>> THEN t
    ELSE IF t[Len(t)].ch = u[1].ch
         THEN SubSeq(t, 1, Len(t) - 1)
              \o <<Run(u[1].ch, t[Len(t)].n + u[1].n)>>
              \o Tail(u)
         ELSE t \o u

\* Python's t[:k].
RECURSIVE Take(_, _)
Take(t, k) ==
    IF t = <<>> \/ k <= 0 THEN <<>>
    ELSE IF Head(t).n <= k
         THEN Concat(<<Head(t)>>, Take(Tail(t), k - Head(t).n))
         ELSE <<Run(Head(t).ch, k)>>

\* Python's t[k:].
RECURSIVE Drop(_, _)
Drop(t, k) ==
    IF t = <<>> \/ k <= 0 THEN t
    ELSE IF Head(t).n <= k
         THEN Drop(Tail(t), k - Head(t).n)
         ELSE <<Run(Head(t).ch, Head(t).n - k)>> \o Tail(t)

\* ---------------------------------------------------------------- splitter

chunk_size == 1000

PYTHON == "python"
JS == "js"
GO == "go"
HTML == "html"
MARKDOWN == "markdown"

\* The splitters of one pass, in the order the pass runs them.
languages == <<PYTHON, JS, GO, HTML, MARKDOWN>>

\* The boundary a language's splitter cuts at first, one character here.
Separator(lang) ==
    CASE lang = PYTHON -> "def"
      [] lang = JS -> "function"
      [] lang = GO -> "func"
      [] lang = HTML -> "<div"
      [] lang = MARKDOWN -> "#"

\* The fallback of the recursive splitter: pieces of chunk_size characters.
RECURSIVE HardCut(_)
HardCut(t) ==
    IF TLen(t) = 0 THEN <<>>
    ELSE IF TLen(t) <= chunk_size THEN <<t>>
    ELSE <<Take(t, chunk_size)>> \o HardCut(Drop(t, chunk_size))

\* t cut before every run of the separator, the separator kept at the head
\* of the piece it starts.
RECURSIVE PiecesAt(_, _, _)
PiecesAt(sep, t, cur) ==
    IF t = <<>> THEN (IF cur = <<>> THEN <<>> ELSE <<cur>>)
    ELSE IF Head(t).ch = sep /\ cur # <<>>
         THEN <<cur>> \o PiecesAt(sep, Tail(t), <<Head(t)>>)
         ELSE PiecesAt(sep, Tail(t), cur \o <<Head(t)>>)

\* Pieces shorter than chunk_size are packed, in order, into chunks of at
\* most chunk_size; a piece that is not shorter is cut by the fallback.
RECURSIVE MergePieces(_, _)
MergePieces(ps, cur) ==
    IF ps = <<>> THEN (IF cur = <<>> THEN <<>> ELSE <<cur>>)
    ELSE IF TLen(Head(ps)) < chunk_size
         THEN IF TLen(cur) + TLen(Head(ps)) > chunk_size
              THEN <<cur>> \o MergePieces(Tail(ps), Head(ps))
              ELSE MergePieces(Tail(ps), Concat(cur, Head(ps)))
         ELSE (IF cur = <<>> THEN <<>> ELSE <<cur>>)
              \o HardCut(Head(ps))
              \o MergePieces(Tail(ps), <<>>)

\* Untitled-1.py hands from_language the whole list as its language: a
\* splitter with no boundary of one language.
ALL_LANGUAGES == "python,js,go,html,markdown"

\* RecursiveCharacterTextSplitter.from_language(lang, chunk_size, 0) on one
\* text: the chunks, in order.
SplitText(lang, t) ==
    IF lang # ALL_LANGUAGES /\ \E i \in 1..Len(t) : t[i].ch = Separator(lang)
    THEN MergePieces(PiecesAt(Separator(lang), t, <<>>), <<>>)
    ELSE HardCut(t)

\* -------------------------------------------------------------- universe

TextA == <<Run("x", 12)>>
TextLong == <<Run("x", 600), Run("#", 1), Run("y", 500)>>
Contents == {TextA, TextLong}

\* A path is the sequence of its components.
Paths == {<<"p", "a.py">>, <<"q", "a.py">>, <<"p", "b.go">>}

\* The language the parser knows a file name's extension by.
ExtLanguage(path) ==
    IF path[Len(path)] \in {"a.py"} THEN "python" ELSE "go"

HasKey(m, k) == k \in DOMAIN m
Get(m, k, default) == IF k \in DOMAIN m THEN m[k] ELSE default
Put(m, k, v) == [x \in DOMAIN m \cup {k} |-> IF x = k THEN v ELSE m[x]]

\* Document metadata as the loader leaves it: 'language' is present when
\* the parser in use knows the extension, 'source' when the loader records
\* one.
Metas ==
    {[source |-> p, language |-> ExtLanguage(p)] : p \in Paths}
    \cup {[source |-> p] : p \in Paths}
    \cup {[language |-> "python"]}

Docs ==
    {[page_content |-> c, metadata |-> m] :
        c \in Contents, m \in {x \in Metas : HasKey(x, "source")}}
    \cup {[page_content |-> TextA, metadata |-> m] :
        m \in {x \in Metas : ~HasKey(x, "source")}}

\* A directory as the loader sees it: one document per file, a document
\* without 'source' at most once.
DocKey(d) == Get(d.metadata, "source", <<>>)

\* One load parses every file with the same parser: files of one extension
\* all carry 'language' or all lack it.
SameParser(d1, d2) ==
    (/\ HasKey(d1.metadata, "source")
     /\ HasKey(d2.metadata, "source")
     /\ ExtLanguage(d1.metadata["source"]) = ExtLanguage(d2.metadata["source"]))
    => (HasKey(d1.metadata, "language") <=> HasKey(d2.metadata, "language"))

RECURSIVE DirsUpTo(_)
DirsUpTo(k) ==
    IF k = 0 THEN {{}}
    ELSE LET S == DirsUpTo(k - 1)
         IN  S \cup UNION {{D \cup {d} :
                              d \in {x \in Docs :
                                        \A y \in D : /\ DocKey(y) # DocKey(x)
                                                     /\ SameParser(x, y)}} :
                           D \in S}

Dirs == DirsUpTo(MaxFiles)

\* The orders a load may return the documents of D in.
RECURSIVE Orders(_)
Orders(D) ==
    IF D = {} THEN {<<>>}
    ELSE UNION {{<<d>> \o s : s \in Orders(D \ {d})} : d \in D}

\* ----------------------------------------------------------------- state

APP == "app.py"
UNTITLED == "Untitled-1.py"
Scripts == {APP, UNTITLED}

VARIABLES
    script,      \* the source file that runs
    dir,         \* the documents the directory holds for the loader
    phase,       \* where load_source_code_to_graph stands
    documents,   \* the loaded documents of the running pass, in load order
    li,          \* index of the splitter in use
    ki,          \* index into split_docs of the chunk to write next
    nodes,       \* the CodeChunk nodes of the graph store
    edges,       \* the SAME_LANGUAGE relationships, a bag of <<from, to>>
    nextId,      \* the identity the store gives the next node it creates
    schema,      \* graph.schema as of the last refresh_schema()
    passes,      \* calls of load_source_code_to_graph so far
    history,     \* per pass that ended: its directory, its outcome, the nodes
    pc,          \* where the script stands
    qa_chain,    \* what setup_qa_chain returned
    prompts,     \* question prompts issued so far
    user_query,  \* the line read at the last prompt
    stage,       \* where the chain call stands
    generated,   \* the query the chain generated for the question
    validated,   \* whether that query passed the chain's validation
    executed,    \* whether that query was run against the graph store
    rows,        \* the rows the executed query returned
    response,    \* what the chain call handed back
    answer       \* how answer_query ended for the last question

ingestVars ==
    <<dir, phase, documents, li, ki, nodes, edges, nextId, schema, passes,
      history>>

procVars ==
    <<pc, qa_chain, prompts, user_query, stage, generated, validated,
      executed, rows, response, answer>>

vars == <<script, ingestVars, procVars>>

\* ---------------------------------------------------------- graph store

Node(id, name, content, language) ==
    [id |-> id, name |-> name, content |-> content, language |-> language]

\* The write as MERGE ... ON CREATE SET would do it: a node that exists
\* keeps what it holds.
MergeOnCreateSet(N, id, name, content, language) ==
    IF \E f \in N : f.name = name
    THEN N
    ELSE N \cup {[id |-> id, name |-> name, content |-> content, language |-> language]}

\* MERGE (f:CodeChunk {name: $name})
\* SET f.content = $content, f.language = $language
MergeSetNode(N, id, name, content, language) ==
    IF \E f \in N : f.name = name
    THEN {IF f.name = name
             THEN Node(f.id, f.name, content, language)
             ELSE f : f \in N}
    ELSE N \cup {Node(id, name, content, language)}

\* The match with id(a) < id(b) for a <> b: each pair once.
SameLanguagePairsOnce(N) ==
    {<<p[1].id, p[2].id>> :
        p \in {q \in N \X N : q[1].id < q[2].id /\ q[1].language = q[2].language}}

\* MATCH (a:CodeChunk), (b:CodeChunk)
\* WHERE a <> b AND a.language = b.language
SameLanguagePairs(N) ==
    {<<p[1].id, p[2].id>> :
        p \in {q \in N \X N : q[1].id # q[2].id /\ q[1].language = q[2].language}}

\* The linking statement as a rebuild: the edges of the pairs matched now
\* and no other.
RebuildSameLanguage(N, E) == SetToBag(SameLanguagePairs(N))

\* The linking statement with CREATE for MERGE: an edge for every matched
\* pair, whether the pair has one or not.
CreateSameLanguage(N, E) == E (+) SetToBag(SameLanguagePairs(N))

\* MERGE (a)-[:SAME_LANGUAGE]->(b), for every matched pair
MergeSameLanguage(N, E) ==
    E (+) SetToBag({p \in SameLanguagePairs(N) : ~BagIn(p, E)})

\* What refresh_schema() finds in the store.
SchemaOf(N, E) ==
    [labels |-> IF N = {} THEN {} ELSE {"CodeChunk"},
     relationships |-> IF E = EmptyBag THEN {} ELSE {"SAME_LANGUAGE"}]

\* The nodes as their properties, identities left out.
NodeView(N) ==
    {[name |-> n.name, content |-> n.content, language |-> n.language] : n \in N}

\* ------------------------------------------------------------ ingestion

\* os.path.basename
Basename(path) == path[Len(path)]

\* app.py lines 38-42: every document gets metadata['name'].
SetName(doc) ==
    [doc EXCEPT !.metadata =
        IF HasKey(doc.metadata, "source")
        THEN Put(doc.metadata, "name", Basename(doc.metadata["source"]))
        ELSE Put(doc.metadata, "name", "Unknown")]

\* The documents as the populate loop gets them: Untitled-1.py has no naming
\* loop.
NameDocuments(s, docs) ==
    [i \in 1..Len(docs) |-> IF s = APP THEN SetName(docs[i]) ELSE docs[i]]

\* The splitters a pass runs: one per language in app.py, one in all in
\* Untitled-1.py.
Splitters(s) == IF s = APP THEN languages ELSE <<ALL_LANGUAGES>>

\* text_splitter.split_documents(documents): the chunks of every document,
\* in document order, each with the metadata of its document.
RECURSIVE SplitDocuments(_, _)
SplitDocuments(lang, docs) ==
    IF docs = <<>> THEN <<>>
    ELSE LET chunks == SplitText(lang, Head(docs).page_content)
         IN  [i \in 1..Len(chunks) |->
                 [page_content |-> chunks[i], metadata |-> Head(docs).metadata]]
             \o SplitDocuments(lang, Tail(docs))

\* The write of the populate loop for one chunk.
UpsertChunk(N, id, doc) ==
    MergeSetNode(N, id,
                 Get(doc.metadata, "name", "Unknown"),
                 doc.page_content,
                 Get(doc.metadata, "language", "Unknown"))

EndOfPass(outcome) ==
    history' = Append(history,
                      [dir |-> dir, outcome |-> outcome, view |-> NodeView(nodes)])

\* loader.load() and the naming loop; the loader returns the files in an
\* order of its own.
LoadDocuments ==
    /\ phase = "load"
    /\ \E order \in Orders(dir) : documents' = NameDocuments(script, order)
    /\ li' = 1
    /\ ki' = 1
    /\ phase' = IF documents' = <<>> THEN "link" ELSE "populate"
    /\ UNCHANGED <<script, dir, nodes, edges, nextId, schema, passes, history>>
    /\ UNCHANGED procVars

\* One graph.query of the populate loop, and the step to the next chunk, the
\* next splitter or the linking statement.
PopulateChunk ==
    /\ phase = "populate"
    /\ LET split_docs == SplitDocuments(Splitters(script)[li], documents)
       IN  /\ nodes' = UpsertChunk(nodes, nextId, split_docs[ki])
           /\ nextId' = IF Cardinality(nodes') > Cardinality(nodes)
                        THEN nextId + 1 ELSE nextId
           /\ IF ki < Len(split_docs)
              THEN /\ ki' = ki + 1
                   /\ UNCHANGED <<li, phase>>
              ELSE IF li < Len(Splitters(script))
                   THEN /\ li' = li + 1
                        /\ ki' = 1
                        /\ UNCHANGED phase
                   ELSE /\ phase' = "link"
                        /\ UNCHANGED <<li, ki>>
    /\ UNCHANGED <<script, dir, documents, edges, schema, passes, history>>
    /\ UNCHANGED procVars

\* The statement that links the nodes of one language.
LinkSameLanguage ==
    /\ phase = "link"
    /\ edges' = MergeSameLanguage(nodes, edges)
    /\ phase' = "refresh"
    /\ UNCHANGED <<script, dir, documents, li, ki, nodes, nextId, schema, passes, history>>
    /\ UNCHANGED procVars

\* graph.refresh_schema(): the pass returns.
RefreshSchema ==
    /\ phase = "refresh"
    /\ schema' = SchemaOf(nodes, edges)
    /\ phase' = "returned"
    /\ EndOfPass("returned")
    /\ UNCHANGED <<script, dir, documents, li, ki, nodes, edges, nextId, passes>>
    /\ UNCHANGED procVars

\* The nodes as a transaction rolled back would leave them: every node
\* with what it held when the pass began, the nodes the pass created gone.
RollbackNodes(N, view) ==
    {Node(p[1].id, p[1].name, p[2].content, p[2].language) :
        p \in {q \in N \X view : q[1].name = q[2].name}}

\* The handler as one that undoes the writes of the pass before it re-raises.
PassRaisesRollback ==
    /\ phase \in {"load", "populate", "link", "refresh"}
    /\ nodes' = RollbackNodes(nodes, IF history = <<>> THEN {}
                                     ELSE history[Len(history)].view)
    /\ phase' = "raised"
    /\ history' = Append(history,
                         [dir |-> dir, outcome |-> "raised", view |-> NodeView(nodes')])
    /\ UNCHANGED <<script, dir, documents, li, ki, edges, nextId, schema, passes>>
    /\ UNCHANGED procVars

\* The loader or a graph call raises: the handler prints and re-raises.
PassRaises ==
    /\ phase \in {"load", "populate", "link", "refresh"}
    /\ phase' = "raised"
    /\ EndOfPass("raised")
    /\ UNCHANGED <<script, dir, documents, li, ki, nodes, edges, nextId, schema, passes>>
    /\ UNCHANGED procVars

\* ------------------------------------------------------------ the chain

\* A generated query: whether the chain's validation accepts it, the
\* language it matches and the column name it returns the content under,
\*   MATCH (c:CodeChunk) WHERE c.language = 'go' RETURN c.content
Queries ==
    [valid : BOOLEAN, language : {"python", "go"}, alias : {"c.content", "n.content"}]

NoQuery == [valid |-> FALSE, language |-> "none", alias |-> "none"]

\* The rows of a query over the store, one per matching node, in an order
\* of the store's.
RowsOf(q, N) ==
    {[i \in 1..Len(o) |-> [k \in {q.alias} |-> o[i].content]] :
        o \in Orders({n \in N : n.language = q.language})}

\* The text the chain's answering model writes.
Summary == "summary"

\* What the chain call may hand back for a query and its rows.  The source
\* tells a dict from a string from anything else, and reads
\* 'intermediate_steps', its first step's 'query' and 'result'.
ResponseShapes == {"str", "steps", "context_steps", "dict", "list"}

ResponseOf(shape, q, r) ==
    CASE shape = "str" -> [kind |-> "str", value |-> Summary]
      [] shape = "steps" ->
            [kind |-> "dict",
             value |-> [result |-> Summary,
                        intermediate_steps |-> <<[query |-> q, result |-> r]>>]]
      [] shape = "context_steps" ->
            [kind |-> "dict",
             value |-> [result |-> Summary,
                        intermediate_steps |-> <<[query |-> q], [context |-> r]>>]]
      [] shape = "dict" -> [kind |-> "dict", value |-> [result |-> Summary]]
      [] shape = "list" -> [kind |-> "list", value |-> r]

NoResponse == [kind |-> "none"]
Raised(e) == [kind |-> "raise", error |-> e]

\* ---------------------------------------------------------- answer_query

NoAnswer == [outcome |-> "none"]
Returned(kind, arg) == [outcome |-> "returned", kind |-> kind, arg |-> arg]
Propagated(e) == [outcome |-> "raised", error |-> e]

display_limit == 1000

\* app.py lines 149-185.  Returned("found", t) is
\* f"Found relevant content: {t}...", Returned("error", e) is
\* f"An error occurred while processing your query: {e}".
answer_query_app(r) ==
    IF r.kind = "raise" THEN Returned("error", r.error)
    ELSE IF r.kind = "dict" /\ HasKey(r.value, "intermediate_steps")
    THEN LET steps == r.value.intermediate_steps
         IN  IF steps = <<>> THEN Returned("error", "IndexError")
             ELSE IF ~HasKey(steps[1], "query") THEN Returned("error", "KeyError")
             ELSE IF ~HasKey(steps[1], "result") THEN Returned("error", "KeyError")
             ELSE LET cypher_result == steps[1].result
                  IN  IF cypher_result = <<>>
                      THEN Returned("text", "No matching data found in the graph for this query.")
                      ELSE LET content == Get(cypher_result[1], "c.content", <<>>)
                           IN  IF content # <<>>
                               THEN Returned("found", Take(content, display_limit))
                               ELSE Returned("text", "No relevant content found in the matched nodes.")
    ELSE IF r.kind = "str" THEN Returned("text", r.value)
    ELSE Returned("text", "Unable to generate an answer.")

\* Untitled-1.py lines 112-114: no handler, and response['result'].
answer_query_untitled(r) ==
    IF r.kind = "raise" THEN Propagated(r.error)
    ELSE IF r.kind = "dict" /\ HasKey(r.value, "result")
    THEN Returned("text", r.value.result)
    ELSE Propagated("TypeError")

answer_query(s, r) ==
    IF s = APP THEN answer_query_app(r) ELSE answer_query_untitled(r)

\* ------------------------------------------------------------ the script

\* str.lower(), on the letters the inputs use.
LowerChar(c) ==
    CASE c = "E" -> "e"
      [] c = "X" -> "x"
      [] c = "I" -> "i"
      [] c = "T" -> "t"
      [] c = "G" -> "g"
      [] OTHER -> c

Lower(str) == [i \in 1..Len(str) |-> LowerChar(str[i])]

\* The lines a user types at the prompt.
Inputs == {<<"e", "x", "i", "t">>, <<"E", "x", "i", "T">>, <<"G", "o", "?">>}

\* `not graph.schema`
SchemaIsEmpty(sch) == sch.labels = {} /\ sch.relationships = {}

\* The call of load_source_code_to_graph at module level.
ModuleLevelLoad ==
    /\ pc = "module"
    /\ phase = "idle"
    /\ phase' = "load"
    /\ passes' = passes + 1
    /\ pc' = "module_load"
    /\ UNCHANGED <<script, dir, documents, li, ki, nodes, edges, nextId, schema, history>>
    /\ UNCHANGED <<qa_chain, prompts, user_query, stage, generated, validated,
                   executed, rows, response, answer>>

\* It returns and the script goes on to main(), or it raises and the
\* script dies.
ModuleLevelDone ==
    /\ pc = "module_load"
    /\ phase \in {"returned", "raised"}
    /\ pc' = IF phase = "returned" THEN "main" ELSE "crashed"
    /\ phase' = IF phase = "returned" THEN "idle" ELSE phase
    /\ UNCHANGED <<script, dir, documents, li, ki, nodes, edges, nextId, schema, passes, history>>
    /\ UNCHANGED <<qa_chain, prompts, user_query, stage, generated, validated,
                   executed, rows, response, answer>>

\* main calls load_source_code_to_graph.
MainLoad ==
    /\ pc = "main"
    /\ phase = "idle"
    /\ phase' = "load"
    /\ passes' = passes + 1
    /\ pc' = "main_load"
    /\ UNCHANGED <<script, dir, documents, li, ki, nodes, edges, nextId, schema, history>>
    /\ UNCHANGED <<qa_chain, prompts, user_query, stage, generated, validated,
                   executed, rows, response, answer>>

\* app.py counts the nodes next and catches what the pass raised;
\* Untitled-1.py sets the chain up next and catches nothing.
MainLoadDone ==
    /\ pc = "main_load"
    /\ phase \in {"returned", "raised"}
    /\ pc' = IF phase = "returned"
             THEN (IF script = APP THEN "count" ELSE "setup")
             ELSE (IF script = APP THEN "exited" ELSE "crashed")
    /\ phase' = IF phase = "returned" THEN "idle" ELSE phase
    /\ UNCHANGED <<script, dir, documents, li, ki, nodes, edges, nextId, schema, passes, history>>
    /\ UNCHANGED <<qa_chain, prompts, user_query, stage, generated, validated,
                   executed, rows, response, answer>>

\* app.py lines 194-195: the count query answers or raises.
CountNodes ==
    /\ pc = "count"
    /\ pc' \in {"setup", "exited"}
    /\ UNCHANGED <<script, ingestVars>>
    /\ UNCHANGED <<qa_chain, prompts, user_query, stage, generated, validated,
                   executed, rows, response, answer>>

\* setup_qa_chain: the schema is refreshed; an empty schema or a failing
\* model or chain constructor raises.  app.py re-raises and main ends;
\* Untitled-1.py returns None and main goes on.
SetupQaChain ==
    /\ pc = "setup"
    /\ schema' = SchemaOf(nodes, edges)
    /\ \E built \in BOOLEAN :
          IF built /\ ~SchemaIsEmpty(schema')
          THEN qa_chain' = "chain" /\ pc' = "prompt"
          ELSE IF script = APP
               THEN qa_chain' = qa_chain /\ pc' = "exited"
               ELSE qa_chain' = "None" /\ pc' = "prompt"
    /\ UNCHANGED <<script, dir, phase, documents, li, ki, nodes, edges, nextId, passes, history>>
    /\ UNCHANGED <<prompts, user_query, stage, generated, validated,
                   executed, rows, response, answer>>

\* input(...): 'exit' in any case leaves the loop, any other line goes to
\* answer_query.
Prompt ==
    /\ pc = "prompt"
    /\ prompts < MaxQuestions
    /\ prompts' = prompts + 1
    /\ \E line \in Inputs :
          /\ user_query' = line
          /\ IF Lower(line) = <<"e", "x", "i", "t">>
             THEN pc' = "exited" /\ stage' = stage
             ELSE pc' = "answer_query" /\ stage' = "GeneratingQuery"
    /\ generated' = NoQuery
    /\ validated' = FALSE
    /\ executed' = FALSE
    /\ rows' = <<>>
    /\ response' = NoResponse
    /\ answer' = NoAnswer
    /\ UNCHANGED <<script, ingestVars, qa_chain>>

\* answer_query is over: main prints and prompts again, or dies of what
\* answer_query let through.
Answered(r) ==
    /\ response' = r
    /\ answer' = answer_query(script, r)
    /\ stage' = "Idle"
    /\ pc' = IF answer'.outcome = "returned" \/ script = APP THEN "prompt" ELSE "crashed"

\* The chain writes a query for the question.
GenerateQuery ==
    /\ pc = "answer_query"
    /\ qa_chain = "chain"
    /\ stage = "GeneratingQuery"
    /\ generated' \in Queries
    /\ stage' = "Generated"
    /\ UNCHANGED <<script, ingestVars>>
    /\ UNCHANGED <<pc, qa_chain, prompts, user_query, validated, executed, rows,
                   response, answer>>

\* validate_cypher=True: the chain validates the query before it runs it.
ValidateCypher ==
    /\ pc = "answer_query"
    /\ stage = "Generated"
    /\ validated' = generated.valid
    /\ stage' = IF generated.valid THEN "Validated" ELSE "ValidationFailed"
    /\ UNCHANGED <<script, ingestVars>>
    /\ UNCHANGED <<pc, qa_chain, prompts, user_query, generated, executed, rows,
                   response, answer>>

\* A query that failed validation is not run: the chain goes on with no
\* rows.
SkipExecution ==
    /\ pc = "answer_query"
    /\ stage = "ValidationFailed"
    /\ rows' = <<>>
    /\ stage' = "ResultsReady"
    /\ UNCHANGED <<script, ingestVars>>
    /\ UNCHANGED <<pc, qa_chain, prompts, user_query, generated, validated, executed,
                   response, answer>>

\* graph.query(generated query)
ExecuteQuery ==
    /\ pc = "answer_query"
    /\ stage = "Validated"
    /\ executed' = TRUE
    /\ rows' \in RowsOf(generated, nodes)
    /\ stage' = "ResultsReady"
    /\ UNCHANGED <<script, ingestVars>>
    /\ UNCHANGED <<pc, qa_chain, prompts, user_query, generated, validated,
                   response, answer>>

\* The chain summarises the rows and the call returns.
ChainReturns ==
    /\ pc = "answer_query"
    /\ stage = "ResultsReady"
    /\ \E shape \in ResponseShapes : Answered(ResponseOf(shape, generated, rows))
    /\ UNCHANGED <<script, ingestVars>>
    /\ UNCHANGED <<qa_chain, prompts, user_query, generated, validated, executed, rows>>

\* The chain call raises: the model while it generates, the validation, the
\* store while it runs the query, the model while it summarises.
ChainRaises ==
    /\ pc = "answer_query"
    /\ qa_chain = "chain"
    /\ stage \in {"GeneratingQuery", "ValidationFailed", "Validated", "ResultsReady"}
    /\ Answered(Raised(stage))
    /\ UNCHANGED <<script, ingestVars>>
    /\ UNCHANGED <<qa_chain, prompts, user_query, generated, validated, executed, rows>>

\* Untitled-1.py after a failed setup: chain is None and chain.invoke is an
\* AttributeError.
NoChain ==
    /\ pc = "answer_query"
    /\ qa_chain = "None"
    /\ stage = "GeneratingQuery"
    /\ Answered(Raised("AttributeError"))
    /\ UNCHANGED <<script, ingestVars>>
    /\ UNCHANGED <<qa_chain, prompts, user_query, generated, validated, executed, rows>>

\* ------------------------------------------- passes over a changing directory

\* load_source_code_to_graph is called: the call at module level, the call
\* of main, or those of the next run of the script against the same store.
CallLoad ==
    /\ phase \in {"idle", "returned", "raised"}
    /\ passes < MaxPasses
    /\ phase' = "load"
    /\ passes' = passes + 1
    /\ UNCHANGED <<script, dir, documents, li, ki, nodes, edges, nextId, schema, history>>
    /\ UNCHANGED procVars

\* The files of the directory change after a pass that returned.
EditDirectory ==
    /\ phase = "returned"
    /\ passes < MaxPasses
    /\ dir' \in Dirs \ {dir}
    /\ UNCHANGED <<script, phase, documents, li, ki, nodes, edges, nextId, schema, passes, history>>
    /\ UNCHANGED procVars

InitStore ==
    /\ dir \in Dirs
    /\ phase = "idle"
    /\ documents = <<>>
    /\ li = 1
    /\ ki = 1
    /\ nodes = {}
    /\ edges = EmptyBag
    /\ nextId = 1
    /\ schema = SchemaOf({}, EmptyBag)
    /\ passes = 0
    /\ history = <<>>

InitProc ==
    /\ pc = "module"
    /\ qa_chain = "unset"
    /\ prompts = 0
    /\ user_query = <<>>
    /\ stage = "Idle"
    /\ generated = NoQuery
    /\ validated = FALSE
    /\ executed = FALSE
    /\ rows = <<>>
    /\ response = NoResponse
    /\ answer = NoAnswer

InitIngest ==
    /\ script = APP
    /\ InitStore
    /\ InitProc

NextIngest ==
    \/ CallLoad
    \/ LoadDocuments
    \/ PopulateChunk
    \/ LinkSameLanguage
    \/ RefreshSchema
    \/ PassRaises
    \/ EditDirectory

SpecIngest == InitIngest /\ [][NextIngest]_vars

Init ==
    /\ script \in Scripts
    /\ InitStore
    /\ InitProc

Next ==
    \/ ModuleLevelLoad
    \/ ModuleLevelDone
    \/ MainLoad
    \/ MainLoadDone
    \/ LoadDocuments
    \/ PopulateChunk
    \/ LinkSameLanguage
    \/ RefreshSchema
    \/ PassRaises
    \/ CountNodes
    \/ SetupQaChain
    \/ Prompt
    \/ GenerateQuery
    \/ ValidateCypher
    \/ SkipExecution
    \/ ExecuteQuery
    \/ ChainReturns
    \/ ChainRaises
    \/ NoChain

Spec == Init /\ [][Next]_vars

\* ------------------------------------------------------ ingestion claims

\* The passes that ran one after the other over the same directory and both
\* returned.
RepeatedPasses ==
    {i \in 1..(Len(history) - 1) :
        /\ history[i].outcome = "returned"
        /\ history[i + 1].outcome = "returned"
        /\ history[i].dir = history[i + 1].dir}

\* C1: a second pass over the unchanged directory leaves the CodeChunk
\* nodes as the first pass left them: the same count, and for every node
\* the same name, content and language.
C1_NodeIdempotence ==
    \A i \in RepeatedPasses : history[i + 1].view = history[i].view

NodeOf(id) == CHOOSE n \in nodes : n.id = id

FullyLinked(N, E) ==
    \A a, b \in N :
        (a.id # b.id /\ a.language = b.language) => BagIn(<<a.id, b.id>>, E)

\* C2: when a pass has run its linking statement, every ordered pair of
\* distinct nodes of one language has its SAME_LANGUAGE edge, and the
\* statement adds edges between such pairs only: a node alone in its
\* language gets none.
C2_FullyMaterialized ==
    [][/\ phase' \in {"refresh", "returned"} => FullyLinked(nodes', edges')
       /\ (phase = "link" /\ phase' = "refresh") =>
             \A p \in BagToSet(edges') \ BagToSet(edges) :
                \E a, b \in nodes :
                    /\ p = <<a.id, b.id>>
                    /\ a.id # b.id
                    /\ a.language = b.language]_vars

\* a.py, b.go and c.py: two nodes of one language linked both ways beside
\* a node of another language.
C2_Witness ==
    /\ phase = "returned"
    /\ \E a, b, c \in nodes :
          /\ a.id # b.id
          /\ a.language = b.language
          /\ c.language # a.language
          /\ BagIn(<<a.id, b.id>>, edges)
          /\ BagIn(<<b.id, a.id>>, edges)
          /\ ~BagIn(<<a.id, c.id>>, edges)

\* C3: every SAME_LANGUAGE edge joins two distinct nodes of the graph whose
\* languages are equal now.
C3_EdgesJoinSameLanguage ==
    \A p \in BagToSet(edges) :
        \E a, b \in nodes :
            /\ p = <<a.id, b.id>>
            /\ a.id # b.id
            /\ a.language = b.language

\* C4: no step removes a SAME_LANGUAGE edge or a CodeChunk node: every edge
\* keeps its copies, every node its identity and its name.
C4_OnlyGrows ==
    [][/\ \A p \in BagToSet(edges) : CopiesIn(p, edges') >= CopiesIn(p, edges)
       /\ BagCardinality(edges') >= BagCardinality(edges)
       /\ \A n \in nodes : \E m \in nodes' : m.id = n.id /\ m.name = n.name]_vars

\* An edge that outlived the language of one of its ends, after a later
\* pass returned.
C4_Witness ==
    /\ phase = "returned"
    /\ \E p \in BagToSet(edges) :
          NodeOf(p[1]).language # NodeOf(p[2]).language

\* Every chunk a pass writes, in the order it writes them: splitter by
\* splitter, document by document, chunk by chunk.
RECURSIVE WritesFrom(_, _, _)
WritesFrom(splitters, i, docs) ==
    IF i > Len(splitters) THEN <<>>
    ELSE SplitDocuments(splitters[i], docs) \o WritesFrom(splitters, i + 1, docs)

PassWrites == WritesFrom(Splitters(script), 1, documents)

\* The name a chunk is stored under: the base name of its file, or
\* 'Unknown' when no source is recorded.
StoredName(chunk) ==
    IF HasKey(chunk.metadata, "source")
    THEN chunk.metadata["source"][Len(chunk.metadata["source"])]
    ELSE "Unknown"

LastWriteOf(name) ==
    LET W == PassWrites
        last == CHOOSE i \in 1..Len(W) :
                    /\ StoredName(W[i]) = name
                    /\ \A j \in (i + 1)..Len(W) : StoredName(W[j]) # name
    IN  W[last]

\* C5: the graph never holds two nodes of one name, and when a pass has
\* written its chunks every name it wrote has one node, which holds the
\* content and the language of the last chunk written under that name.
C5_LastWriterWins ==
    /\ \A a, b \in nodes : a.name = b.name => a = b
    /\ phase \in {"link", "refresh", "returned"} =>
          \A i \in 1..Len(PassWrites) :
             \E n \in nodes :
                 /\ n.name = StoredName(PassWrites[i])
                 /\ n.content = LastWriteOf(n.name).page_content
                 /\ n.language = Get(LastWriteOf(n.name).metadata, "language", "Unknown")

\* A pass that wrote one name several times with different contents.
C5_Witness ==
    /\ phase = "returned"
    /\ \E i, j \in 1..Len(PassWrites) :
          /\ i < j
          /\ StoredName(PassWrites[i]) = StoredName(PassWrites[j])
          /\ PassWrites[i].page_content # PassWrites[j].page_content
          /\ PassWrites[i].metadata # PassWrites[j].metadata

\* ------------------------------------------------------- question claims

\* A question has been answered and the next has not been read yet.
HasAnswered == answer.outcome # "none"

\* C6: with a chain set up, answer_query ends every question by returning a
\* string, whatever the chain call did, and main prompts again.
C6_AnswerQueryNeverRaises ==
    (HasAnswered /\ qa_chain = "chain") =>
        (answer.outcome = "returned" /\ pc = "prompt")

\* The same of app.py alone.
C6_AppNeverRaises ==
    (script = APP /\ HasAnswered) =>
        (answer.outcome = "returned" /\ pc = "prompt")

\* C7: in app.py a question whose query ran and returned no rows, the chain
\* call returning, is answered with the canned text.
C7_EmptyResultCanned ==
    (/\ script = APP
     /\ HasAnswered
     /\ executed
     /\ rows = <<>>
     /\ response.kind # "raise")
    => (/\ answer.outcome = "returned"
        /\ answer.kind = "text"
        /\ answer.arg = "No matching data found in the graph for this query.")

\* The content field of a row, whatever its column is called.
ContentOf(row) == row[CHOOSE k \in DOMAIN row : TRUE]

\* C8: in app.py, when the query ran and returned rows and the chain call
\* handed them back under intermediate_steps[0]['result'], the answer holds
\* the content of the first row, cut to 1000 characters.
C8_FirstRowContent ==
    (/\ script = APP
     /\ HasAnswered
     /\ executed
     /\ rows # <<>>
     /\ response = ResponseOf("steps", generated, rows))
    => (/\ answer.outcome = "returned"
        /\ answer.kind = "found"
        /\ answer.arg = Take(ContentOf(rows[1]), 1000))

\* C9: in app.py a query is run only after it passed validation, and a
\* question whose query failed validation is answered with the error text.
C9_ValidatedBeforeExecuted ==
    script = APP =>
        /\ executed => validated
        /\ (HasAnswered /\ generated # NoQuery /\ ~validated) =>
              (/\ ~executed
               /\ answer.outcome = "returned"
               /\ answer.kind = "error")

\* C10: in app.py, when the first prompt is issued, one ingestion pass has
\* been run, and it returned.
C10_IngestOnce ==
    (script = APP /\ prompts >= 1) =>
        (/\ passes = 1
         /\ Len(history) = 1
         /\ history[1].outcome = "returned")

\* ------------------------------------------------------ the loop's claims

\* The line read at the last prompt is 'exit' in some letter case.
ReadExit == Lower(user_query) = <<"e", "x", "i", "t">>

\* C11: with a chain set up, the loop is left only when 'exit' was read, in
\* whatever letter case, and then the script ends cleanly with that line left
\* unanswered; any other line is answered and followed by a new prompt.
C11_LoopEndsIffExit ==
    (prompts >= 1 /\ qa_chain = "chain") =>
        /\ pc \in {"exited", "crashed"} => (ReadExit /\ pc = "exited")
        /\ ReadExit => (pc = "exited" /\ ~HasAnswered)
        /\ pc = "prompt" => (~ReadExit /\ HasAnswered)

\* The same of app.py alone.
C11_AppLoopEndsIffExit ==
    (script = APP /\ prompts >= 1) =>
        /\ pc \in {"exited", "crashed"} => (ReadExit /\ pc = "exited")
        /\ ReadExit => (pc = "exited" /\ ~HasAnswered)
        /\ pc = "prompt" => (~ReadExit /\ HasAnswered)

\* ----------------------------------------------------- setup-time errors

\* A pass of this run ended by raising.
IngestionFailed ==
    \E i \in 1..Len(history) : history[i].outcome = "raised"

\* setup_qa_chain has run and found the schema empty.
FoundEmptySchema ==
    /\ pc \in {"prompt", "answer_query", "exited", "crashed"}
    /\ passes >= 1
    /\ ~IngestionFailed
    /\ SchemaIsEmpty(schema)

\* C12: when a pass raised, or setup_qa_chain found the schema empty, the
\* loop is not entered: no prompt is issued, and no question is answered
\* without a chain.
C12_SetupErrorsAbort ==
    (IngestionFailed \/ FoundEmptySchema) =>
        /\ pc \notin {"prompt", "answer_query"}
        /\ prompts = 0
        /\ ~HasAnswered

\* The same of app.py alone.
C12_AppSetupErrorsAbort ==
    (script = APP /\ (IngestionFailed \/ FoundEmptySchema)) =>
        /\ pc \notin {"prompt", "answer_query"}
        /\ prompts = 0
        /\ ~HasAnswered

\* ------------------------------------------------------------ no rollback

\* The chunks the running pass has written so far: those of the splitters
\* before the one in use, and those before chunk ki of the one in use.
WritesDone ==
    WritesFrom(SubSeq(Splitters(script), 1, li - 1), 1, documents)
        \o SubSeq(SplitDocuments(Splitters(script)[li], documents), 1, ki - 1)

\* C13: when a graph write of the populate loop fails, every name written
\* before it keeps its node, with the content and language last written under
\* that name; no node is touched by the failure, the edges and the schema
\* stay as they were, the pass ends by raising, and no linking or refresh
\* follows in that pass.
C13_NoRollback ==
    [][/\ (phase = "populate" /\ phase' = "raised") =>
             /\ LET W == WritesDone
                IN  \A i \in 1..Len(W) :
                       (\A j \in (i + 1)..Len(W) :
                           StoredName(W[j]) # StoredName(W[i]))
                       => \E n \in nodes' :
                             /\ n.name = StoredName(W[i])
                             /\ n.content = W[i].page_content
                             /\ n.language = Get(W[i].metadata, "language", "Unknown")
             /\ \A n \in nodes : n \in nodes'
             /\ edges' = edges
             /\ schema' = schema
             /\ history' = Append(history, [dir |-> dir, outcome |-> "raised",
                                            view |-> NodeView(nodes)])
       /\ phase = "raised" => phase' \in {"raised", "load"}]_vars

\* The first pass raised in the populate loop after it wrote two nodes of
\* one language: they are in the graph, unlinked, and the schema was not
\* refreshed.
C13_Witness ==
    /\ phase = "raised"
    /\ passes = 1
    /\ documents # <<>>
    /\ li < Len(Splitters(script))
    /\ history[Len(history)].outcome = "raised"
    /\ \E a, b \in nodes : a.id # b.id /\ a.language = b.language
    /\ edges = EmptyBag
    /\ SchemaIsEmpty(schema)

\* --------------------------------------------------- linking, once more

\* The nodes by name and language; a name is one node.
LangView(V) == {[name |-> v.name, language |-> v.language] : v \in V}

\* The passes that returned: each ran its linking statement.
ReturnedPasses == {i \in 1..Len(history) : history[i].outcome = "returned"}

\* The nodes as the last pass that returned linked them.
LastLinked ==
    history[CHOOSE i \in ReturnedPasses : \A j \in ReturnedPasses : j <= i].view

\* C14: no ordered pair of nodes ever has more than one SAME_LANGUAGE edge,
\* and the linking statement of a pass that finds the nodes and their
\* languages as the last returned pass left them adds no edge.
C14_LinkingIdempotent ==
    [][/\ \A p \in BagToSet(edges') : CopiesIn(p, edges') = 1
       /\ (/\ phase = "link"
           /\ phase' = "refresh"
           /\ ReturnedPasses # {}
           /\ LangView(LastLinked) = LangView(nodes))
          => edges' = edges]_vars

\* A second pass returned over nodes of unchanged languages, and the graph
\* has its edges, one per linked pair.
C14_Witness ==
    /\ phase = "returned"
    /\ passes = 2
    /\ ReturnedPasses = {1, 2}
    /\ LangView(history[1].view) = LangView(history[2].view)
    /\ edges # EmptyBag
    /\ \A p \in BagToSet(edges) : CopiesIn(p, edges) = 1

====
